---- MODULE Spec2Model ----
(***************************************************************************)
(* The helm installer of up (package helm): GetCurrentVersion, Install,   *)
(* Upgrade, Uninstall, pullAndLoad, pullChart and equivalentVersions,     *)
(* together with the collaborators they drive: the release store of the   *)
(* cluster, the chart repository puller, the chart loader and the cache   *)
(* directory on the filesystem.                                           *)
(*                                                                         *)
(* Strings that the code inspects character by character (versions) are   *)
(* sequences of one-character strings.  A directory is the sequence of    *)
(* its path components ("/" is the empty sequence), so that filepath.Join *)
(* is concatenation.  An error is the chain of its messages, outermost    *)
(* first, nil being the empty chain.                                      *)
(***************************************************************************)
EXTENDS Integers, Sequences, FiniteSets, TLC

VARIABLES
    store,            \* release name -> release held by the cluster
    releaseName,      \* installer.releaseName
    chartName,        \* installer.chartName
    cacheDir,         \* installer.cacheDir
    force,            \* installer.force
    rollbackOnError,  \* installer.rollbackOnError
    files,            \* files of installer.fs
    dirs,             \* temporary directories of installer.fs
    last,             \* the operation that ran last: arguments, calls made, error returned
    procs             \* the Install invocations of other processes that are under way

vars == <<store, releaseName, chartName, cacheDir, force, rollbackOnError, files, dirs, last,
          procs>>

----------------------------------------------------------------------------
(* Constants of the package. *)

defaultNamespace == "upbound-system"
defaultChartName == "universal-crossplane"
crossplaneChartName == "crossplane"
allVersions == <<">", "0", ".", "0", ".", "0", "-", "0">>

errGetInstalledReleaseFmt == "could not identify installed release for crossplane or universal-crossplane in namespace %s"
errVerifyInstalledVersion == "could not identify current version"
errVerifyChartNotInstalled == "could not verify that chart is not already installed"
errChartAlreadyInstalledFmt == "chart already installed with version %s"
errPullChart == "could not pull chart"
errGetLatestPulled == "could not identify chart pulled as latest"
errCorruptTempDirFmt == "corrupt chart tmp directory, consider removing cache (%s)"
errMoveLatest == "could not move latest pulled chart to cache"
errUpgradeCrossplaneVersion == "cannot upgrade crossplane to universal-crossplane with version mismatch"
errFailedUpgradeFailedRollback == "failed upgrade resulted in a failed rollback"
errFailedUpgradeRollback == "failed upgrade was rolled back"

\* driver.ErrReleaseNotFound, the sentinel the release store answers with.
ErrReleaseNotFound == "release: not found"

----------------------------------------------------------------------------
(* Errors: errors.New, errors.Errorf, errors.Wrap, errors.Wrapf, errors.Is. *)

Nil == <<>>

ErrorsNew(m) == <<[msg |-> m, arg |-> <<>>]>>

ErrorsErrorf(m, a) == <<[msg |-> m, arg |-> a]>>

\* errors.Wrap and errors.Wrapf of a nil error are nil.
ErrorsWrap(err, m) == IF err = Nil THEN Nil ELSE <<[msg |-> m, arg |-> <<>>]>> \o err

ErrorsWrapf(err, m, a) == IF err = Nil THEN Nil ELSE <<[msg |-> m, arg |-> a]>> \o err

ErrorsIs(err, target) == \E i \in DOMAIN err : err[i].msg = target

----------------------------------------------------------------------------
(* Versions. *)

Digits == <<"0", "1", "2", "3", "4", "5", "6", "7", "8", "9">>

IsDigit(c) == \E i \in DOMAIN Digits : Digits[i] = c

DigitValue(c) == (CHOOSE i \in DOMAIN Digits : Digits[i] = c) - 1

IsAlnumDash(c) == IsDigit(c) \/ c \in {"u", "p", "a", "b", "-"}

\* strings.TrimPrefix(version, "v")
TrimPrefixV(s) == IF Len(s) > 0 /\ s[1] = "v" THEN Tail(s) ELSE s

\* The position of the first c in s, 0 if there is none.
IndexOf(s, c) ==
    IF \E i \in DOMAIN s : s[i] = c
    THEN CHOOSE i \in DOMAIN s : s[i] = c /\ \A j \in 1..(i - 1) : s[j] # c
    ELSE 0

\* strings.Split(s, sep) for a one-character separator.
RECURSIVE SplitOn(_, _)
SplitOn(s, sep) ==
    LET i == IndexOf(s, sep)
    IN IF i = 0 THEN <<s>>
       ELSE <<SubSeq(s, 1, i - 1)>> \o SplitOn(SubSeq(s, i + 1, Len(s)), sep)

RECURSIVE NumberOf(_)
NumberOf(s) ==
    IF Len(s) = 0 THEN 0
    ELSE 10 * NumberOf(SubSeq(s, 1, Len(s) - 1)) + DigitValue(s[Len(s)])

IsNumber(s) == Len(s) > 0 /\ \A i \in DOMAIN s : IsDigit(s[i])

IsIdentifiers(s) ==
    LET parts == SplitOn(s, ".")
    IN \A i \in DOMAIN parts :
           Len(parts[i]) > 0 /\ \A j \in DOMAIN parts[i] : IsAlnumDash(parts[i][j])

\* semver.NewVersion: an optional "v", one to three dot-separated numbers
\* (a missing minor or patch is 0) and an optional "-" prerelease of
\* dot-separated identifiers.
NewVersion(s) ==
    LET t == TrimPrefixV(s)
        d == IndexOf(t, "-")
        core == IF d = 0 THEN t ELSE SubSeq(t, 1, d - 1)
        pre == IF d = 0 THEN <<>> ELSE SubSeq(t, d + 1, Len(t))
        nums == SplitOn(core, ".")
        ok == /\ Len(nums) \in 1..3
              /\ \A i \in DOMAIN nums : IsNumber(nums[i])
              /\ d # 0 => IsIdentifiers(pre)
    IN IF ok
       THEN [ok |-> TRUE,
             major |-> NumberOf(nums[1]),
             minor |-> IF Len(nums) >= 2 THEN NumberOf(nums[2]) ELSE 0,
             patch |-> IF Len(nums) >= 3 THEN NumberOf(nums[3]) ELSE 0,
             pre |-> pre]
       ELSE [ok |-> FALSE, major |-> 0, minor |-> 0, patch |-> 0, pre |-> <<>>]

\* equivalentVersions without the comparison of the patch numbers.
equivalentVersionsMajorMinor(current, target) ==
    LET curV == NewVersion(current)
        tarV == NewVersion(target)
    IN curV.ok /\ tarV.ok /\ curV.major = tarV.major /\ curV.minor = tarV.minor

equivalentVersions(current, target) ==
    LET curV == NewVersion(current)
        tarV == NewVersion(target)
    IN IF ~curV.ok THEN FALSE
       ELSE IF ~tarV.ok THEN FALSE
       ELSE IF curV.major = tarV.major /\ curV.minor = tarV.minor /\ curV.patch = tarV.patch
            THEN TRUE
            ELSE FALSE

----------------------------------------------------------------------------
(* The inputs and the environment. *)

V100 == <<"1", ".", "0", ".", "0">>
V100u == <<"1", ".", "0", ".", "0", "-", "u">>
Vv100u == <<"v", "1", ".", "0", ".", "0", "-", "u">>
V110 == <<"1", ".", "1", ".", "0">>

\* The versions a command asks for; the empty version asks for the latest.
TargetVersions == {<<>>, Vv100u, V110}

\* The versions the repository may hold as its latest.
RepoVersions == {V110}

\* The versions a release found in the cluster may have.
InstalledVersions == {V100}

\* The cache directories an installer is built with: /home/charts, standing for
\* the default of NewInstaller, $HOME/.cache/up/charts.
CacheDirs == {<<"home", "charts">>}

\* The most files one pull of the latest chart leaves in its directory.
MaxPulled == 2

\* The most temporary directories that exist at a time.
MaxTmp == 1

TmpNames == <<"tmp1", "tmp2", "tmp3">>

\* Errors of the collaborators.
errStoreUnreachable == "Kubernetes cluster unreachable"
errInstallRun == "install failed"
errUpgradeRun == "upgrade failed"
errRollbackRun == "rollback failed"
errUninstallRun == "uninstall failed"
errPullRun == "chart not found in repository"
errLoad == "cannot load chart archive"
errTempDir == "cannot create temporary directory"
errReadDir == "cannot read directory"
errRename == "cannot rename file"
errNotExist == "file does not exist"
errRemoveAll == "cannot remove directory"

----------------------------------------------------------------------------
(* The release store of the cluster, behind helmGetter, helmInstaller,     *)
(* helmUpgrader, helmRollbacker and helmUninstaller.                       *)

\* A chart name given with WithChartName.
otherChartName == "my-crossplane"

ReleaseNames == {defaultChartName, crossplaneChartName, otherChartName}

NoRelease == [present |-> FALSE, meta |-> FALSE, version |-> <<>>]

NoMetadata == [present |-> TRUE, meta |-> FALSE, version |-> <<>>]

Release(v) == [present |-> TRUE, meta |-> TRUE, version |-> v]

\* A call on a collaborator: what was called, on which name, and its error.
Call(op, arg, err) == [op |-> op, arg |-> arg, err |-> err, n |-> 0]

\* The call of afero.ReadDir, with the number of entries it listed.
ListCall(r) == [op |-> "readDir", arg |-> "", err |-> r.err, n |-> Len(r.list)]

\* helmGetter.Run(name): the release, driver.ErrReleaseNotFound, or another error.
GetRun(st, name) ==
    {[rel |-> NoRelease, err |-> ErrorsNew(errStoreUnreachable)]}
    \cup (IF st[name].present
          THEN {[rel |-> st[name], err |-> Nil]}
          ELSE {[rel |-> NoRelease, err |-> ErrorsNew(ErrReleaseNotFound)]})

\* helmInstaller.Run(chart, parameters), its ReleaseName being name.
InstallRun(st, name, chart) ==
    {[store |-> st, err |-> ErrorsNew(errInstallRun)]}
    \cup (IF ~st[name].present
          THEN {[store |-> [st EXCEPT ![name] = Release(chart.version)], err |-> Nil]}
          ELSE {})

\* helmUpgrader.Run(name, chart, parameters): a failed upgrade may leave the
\* release as it was or at the new chart.
UpgradeRun(st, name, chart) ==
    {[store |-> st, err |-> ErrorsNew(errUpgradeRun)]}
    \cup (IF st[name].present
          THEN {[store |-> [st EXCEPT ![name] = Release(chart.version)], err |-> e] :
                    e \in {Nil, ErrorsNew(errUpgradeRun)}}
          ELSE {})

\* helmRollbacker.Run(name): back to the release before the upgrade, prev.
RollbackRun(st, name, prev) ==
    {[store |-> st, err |-> ErrorsNew(errRollbackRun)]}
    \cup (IF st[name].present
          THEN {[store |-> [st EXCEPT ![name] = prev], err |-> Nil]}
          ELSE {})

\* helmUninstaller.Run(name)
UninstallRun(st, name) ==
    {[store |-> st, err |-> ErrorsNew(errUninstallRun)]}
    \cup (IF st[name].present
          THEN {[store |-> [st EXCEPT ![name] = NoRelease], err |-> Nil]}
          ELSE {})

----------------------------------------------------------------------------
(* The filesystem, the puller and the loader. *)

\* fmt.Sprintf("%s-%s.tgz", chart, version); n tells the archive (1) from the
\* other files a pull may leave next to it.
FileName(chart, version) == [chart |-> chart, ver |-> version, n |-> 1]

Path(dir, name) == [dir |-> dir, name |-> name]

\* filepath.Join(dir, path)
Join(dir, path) == [dir |-> dir \o path.dir, name |-> path.name]

File(path, content) == [dir |-> path.dir, name |-> path.name, content |-> content]

\* fs.Stat(path) returns no error
Stat(fs, path) == \E f \in fs : f.dir = path.dir /\ f.name = path.name

WriteFile(fs, f) == {g \in fs : ~(g.dir = f.dir /\ g.name = f.name)} \cup {f}

NoChart == [name |-> "", version |-> <<>>]

\* LoaderFn(path)
Load(fs, path) ==
    {[chart |-> NoChart, err |-> ErrorsNew(errLoad)]}
    \cup {[chart |-> [name |-> f.name.chart, version |-> f.content], err |-> Nil] :
              f \in {g \in fs : g.dir = path.dir /\ g.name = path.name}}

\* helmPuller.Run(chart) with DestDir dest and Version constraint: a concrete
\* version is written as chart-version.tgz; the constraint allVersions resolves
\* to the latest version of the repository.
PullerRun(fs, chart, dest, constraint) ==
    {[files |-> fs, err |-> ErrorsNew(errPullRun)]}
    \cup (IF constraint = allVersions
          THEN {[files |-> fs \cup {[dir |-> dest,
                                     name |-> [chart |-> chart, ver |-> l, n |-> i],
                                     content |-> l] : i \in 1..k},
                 err |-> Nil] : l \in RepoVersions, k \in 0..MaxPulled}
          ELSE {[files |-> WriteFile(fs, File(Path(dest, FileName(chart, constraint)), constraint)),
                 err |-> Nil]})

\* afero.ReadDir(fs, dir): the entries of dir sorted by name.
ReadDir(fs, dir) ==
    LET S == {f \in fs : f.dir = dir}
    IN {[list |-> <<>>, err |-> ErrorsNew(errReadDir)],
        [list |-> [i \in 1..Cardinality(S) |->
                      CHOOSE f \in S : Cardinality({g \in S : g.name.n < f.name.n}) = i - 1],
         err |-> Nil]}

\* fs.Rename(from, to)
Rename(fs, from, to) ==
    {[files |-> fs, err |-> ErrorsNew(errRename)],
     [files |-> WriteFile(fs \ {from}, File(to, from.content)), err |-> Nil]}

\* fs.RemoveAll(dir) removes everything it can: when it fails the directory
\* is left behind, emptied.
RemoveAll(fs, ds, dir) ==
    {[files |-> {f \in fs : f.dir # dir}, dirs |-> ds, err |-> ErrorsNew(errRemoveAll)],
     [files |-> {f \in fs : f.dir # dir}, dirs |-> ds \ {dir}, err |-> Nil]}

\* TempDirFn(fs, dir, ""): a directory under dir that did not exist.
TempDir(ds, dir) ==
    LET free == {k \in 1..MaxTmp : (dir \o <<TmpNames[k]>>) \notin ds}
    IN {[name |-> <<>>, err |-> ErrorsNew(errTempDir)]}
       \cup (IF free = {}
             THEN {}
             ELSE {[name |-> dir \o <<TmpNames[CHOOSE k \in free : \A j \in free : k <= j]>>,
                    err |-> Nil]})

----------------------------------------------------------------------------
(* installer.pullChart and installer.pullAndLoad. *)

\* What an operation of the installer leaves: the chart or version it returns,
\* its error, the filesystem and the calls it made on its collaborators.
Loaded(chart, err, fs, ds, calls) ==
    [chart |-> chart, err |-> err, files |-> fs, dirs |-> ds, calls |-> calls]

pullChart(fs, chart, dest, version) ==
    PullerRun(fs, chart, dest, IF version = <<>> THEN allVersions ELSE version)

\* return h.load(fileName)
loadFile(fs, ds, fileName, calls) ==
    {Loaded(l.chart, l.err, fs, ds, Append(calls, Call("load", "", l.err))) :
         l \in Load(fs, fileName)}

\* version != "": pull into the cache directory unless the archive is cached.
pullCached(fs, ds, chart, cdir, version, fileName) ==
    IF Stat(fs, Join(cdir, fileName))
    THEN loadFile(fs, ds, fileName, <<Call("stat", "", Nil)>>)
    ELSE UNION {
           IF p.err # Nil
           THEN {Loaded(NoChart, ErrorsWrap(p.err, errPullChart), p.files, ds,
                        <<Call("stat", "", ErrorsNew(errNotExist)), Call("pull", chart, p.err)>>)}
           ELSE loadFile(p.files, ds, fileName,
                         <<Call("stat", "", ErrorsNew(errNotExist)), Call("pull", chart, p.err)>>)
           : p \in pullChart(fs, chart, cdir, version)}

\* corruptTempDir that only notices an empty directory.
corruptTempDirEmptyOnly(list) == Len(list) = 0

\* The check on the listing of the temporary directory.
corruptTempDir(list) == Len(list) # 1

\* version == "", after the pull into tmp: list tmp, move its file, load.
moveLatest(fs, ds, cdir, tmp, fileName, calls) ==
    UNION {
      IF r.err # Nil
      THEN {Loaded(NoChart, ErrorsWrap(r.err, errGetLatestPulled), fs, ds,
                   Append(calls, ListCall(r)))}
      ELSE IF corruptTempDir(r.list)
      THEN {Loaded(NoChart, ErrorsErrorf(errCorruptTempDirFmt, cdir), fs, ds,
                   Append(calls, ListCall(r)))}
      ELSE UNION {
             IF m.err # Nil
             THEN {Loaded(NoChart, ErrorsWrap(m.err, errMoveLatest), m.files, ds,
                          calls \o <<ListCall(r), Call("rename", "", m.err)>>)}
             ELSE loadFile(m.files, ds, fileName,
                           calls \o <<ListCall(r), Call("rename", "", m.err)>>)
             : m \in Rename(fs, r.list[1], fileName)}
      : r \in ReadDir(fs, tmp)}

\* pullLatest that removes its temporary directory only when nothing failed.
pullLatestKeepsOnError(fs, ds, chart, cdir, version, fileName) ==
    UNION {
      IF t.err # Nil
      THEN {Loaded(NoChart, t.err, fs, ds, <<Call("tempDir", "", t.err)>>)}
      ELSE LET tmp == t.name
               body == UNION {
                   IF p.err # Nil
                   THEN {Loaded(NoChart, ErrorsWrap(p.err, errPullChart), p.files, ds \cup {tmp},
                                <<Call("tempDir", "", t.err), Call("pull", chart, p.err)>>)}
                   ELSE moveLatest(p.files, ds \cup {tmp}, cdir, tmp, fileName,
                                   <<Call("tempDir", "", t.err), Call("pull", chart, p.err)>>)
                   : p \in pullChart(fs, chart, tmp, version)}
           IN UNION {IF b.err # Nil
                     THEN {b}
                     ELSE {Loaded(b.chart, b.err, x.files, x.dirs,
                                  Append(b.calls, Call("removeAll", "", x.err))) :
                               x \in RemoveAll(b.files, b.dirs, tmp)} : b \in body}
      : t \in TempDir(ds, cdir)}

\* version == "": pull the latest into a temporary directory.
pullLatest(fs, ds, chart, cdir, version, fileName) ==
    UNION {
      IF t.err # Nil
      THEN {Loaded(NoChart, t.err, fs, ds, <<Call("tempDir", "", t.err)>>)}
      ELSE LET tmp == t.name
               body == UNION {
                   IF p.err # Nil
                   THEN {Loaded(NoChart, ErrorsWrap(p.err, errPullChart), p.files, ds \cup {tmp},
                                <<Call("tempDir", "", t.err), Call("pull", chart, p.err)>>)}
                   ELSE moveLatest(p.files, ds \cup {tmp}, cdir, tmp, fileName,
                                   <<Call("tempDir", "", t.err), Call("pull", chart, p.err)>>)
                   : p \in pullChart(fs, chart, tmp, version)}
           IN \* defer h.fs.RemoveAll(tmp)
              UNION {{Loaded(b.chart, b.err, x.files, x.dirs,
                             Append(b.calls, Call("removeAll", "", x.err))) :
                          x \in RemoveAll(b.files, b.dirs, tmp)} : b \in body}
      : t \in TempDir(ds, cdir)}

pullAndLoadOutcomes(fs, ds, chart, cdir, v) ==
    LET version == TrimPrefixV(v)
        fileName == Path(cdir, FileName(chart, version))
    IN IF version # <<>>
       THEN pullCached(fs, ds, chart, cdir, version, fileName)
       ELSE pullLatest(fs, ds, chart, cdir, version, fileName)

----------------------------------------------------------------------------
(* installer.GetCurrentVersion, Install, Upgrade, Uninstall. *)

Found(version, err, rn, calls) ==
    [version |-> version, err |-> err, releaseName |-> rn, calls |-> calls]

\* The end of GetCurrentVersion: a release without chart metadata has no version.
currentVersion(rel, rn, calls) ==
    IF ~rel.present \/ ~rel.meta
    THEN Found(<<>>, ErrorsNew(errVerifyInstalledVersion), rn, calls)
    ELSE Found(rel.version, Nil, rn, calls)

\* fallbackVersion without its query: the crossplane release is never looked for.
fallbackVersionSkipped(st, rn, calls) ==
    {Found(<<>>, ErrorsWrapf(ErrorsNew(ErrReleaseNotFound), errGetInstalledReleaseFmt,
                             <<defaultNamespace>>), rn, calls)}

\* fallbackVersion taking the crossplane name before it knows the query's answer.
fallbackVersionFlipsFirst(st, rn, calls) ==
    {IF g.err # Nil
     THEN Found(<<>>, ErrorsWrapf(g.err, errGetInstalledReleaseFmt, <<defaultNamespace>>),
                crossplaneChartName, Append(calls, Call("get", crossplaneChartName, g.err)))
     ELSE currentVersion(g.rel, crossplaneChartName,
                         Append(calls, Call("get", crossplaneChartName, g.err)))
     : g \in GetRun(st, crossplaneChartName)}

\* fallbackVersion reporting the failed query by a new error that drops its cause.
fallbackVersionUnwrapped(st, rn, calls) ==
    {IF g.err # Nil
     THEN Found(<<>>, ErrorsErrorf(errGetInstalledReleaseFmt, <<defaultNamespace>>), rn,
                Append(calls, Call("get", crossplaneChartName, g.err)))
     ELSE currentVersion(g.rel, crossplaneChartName,
                         Append(calls, Call("get", crossplaneChartName, g.err)))
     : g \in GetRun(st, crossplaneChartName)}

\* The second query of GetCurrentVersion, under crossplaneChartName.
fallbackVersion(st, rn, calls) ==
    {IF g.err # Nil
     THEN Found(<<>>, ErrorsWrapf(g.err, errGetInstalledReleaseFmt, <<defaultNamespace>>), rn,
                Append(calls, Call("get", crossplaneChartName, g.err)))
     ELSE currentVersion(g.rel, crossplaneChartName,
                         Append(calls, Call("get", crossplaneChartName, g.err)))
     : g \in GetRun(st, crossplaneChartName)}

\* GetCurrentVersionOutcomes falling back to crossplaneChartName on any error
\* of its first query, not on ErrReleaseNotFound alone.
GetCurrentVersionOutcomesOnAnyError(st, rn) ==
    UNION {
      LET calls == <<Call("get", defaultChartName, g.err)>>
      IN IF g.err # Nil
         THEN fallbackVersion(st, rn, calls)
         ELSE {currentVersion(g.rel, rn, calls)}
      : g \in GetRun(st, defaultChartName)}

GetCurrentVersionOutcomes(st, rn) ==
    UNION {
      LET calls == <<Call("get", defaultChartName, g.err)>>
      IN IF g.err # Nil /\ ~ErrorsIs(g.err, ErrReleaseNotFound)
         THEN {Found(<<>>, g.err, rn, calls)}
         ELSE IF ErrorsIs(g.err, ErrReleaseNotFound)
         THEN fallbackVersion(st, rn, calls)
         ELSE {currentVersion(g.rel, rn, calls)}
      : g \in GetRun(st, defaultChartName)}

\* What an operation leaves behind it.
Result(st, rn, fs, ds, calls, err, out) ==
    [store |-> st, releaseName |-> rn, files |-> fs, dirs |-> ds,
     calls |-> calls, err |-> err, out |-> out]

\* installChart that looks for the release once more and does not install over it.
installChartRechecked(st, rn, chart, pl, calls) ==
    IF st[chart].present
    THEN {Result(st, rn, pl.files, pl.dirs, calls \o pl.calls,
                 ErrorsErrorf(errChartAlreadyInstalledFmt, st[chart].version), <<>>)}
    ELSE {Result(i.store, rn, pl.files, pl.dirs,
                 Append(calls \o pl.calls, Call("install", chart, i.err)), i.err, <<>>) :
              i \in InstallRun(st, chart, pl.chart)}

\* h.installClient.Run(chart, parameters); the client's ReleaseName is the
\* chart name the installer was built with.
installChart(st, rn, chart, pl, calls) ==
    {Result(i.store, rn, pl.files, pl.dirs,
            Append(calls \o pl.calls, Call("install", chart, i.err)), i.err, <<>>) :
         i \in InstallRun(st, chart, pl.chart)}

\* InstallOutcomes going on to the install primitive whatever pullAndLoad returned.
InstallOutcomesIgnoringLoadError(st, rn, fs, ds, chart, cdir, version) ==
    UNION {
      IF g.err = Nil
      THEN {Result(st, g.releaseName, fs, ds, g.calls,
                   ErrorsErrorf(errChartAlreadyInstalledFmt, g.version), <<>>)}
      ELSE IF ~ErrorsIs(g.err, ErrReleaseNotFound)
      THEN {Result(st, g.releaseName, fs, ds, g.calls,
                   ErrorsWrap(g.err, errVerifyChartNotInstalled), <<>>)}
      ELSE UNION {installChart(st, g.releaseName, chart, pl, g.calls)
                  : pl \in pullAndLoadOutcomes(fs, ds, chart, cdir, version)}
      : g \in GetCurrentVersionOutcomes(st, rn)}

InstallOutcomes(st, rn, fs, ds, chart, cdir, version) ==
    UNION {
      IF g.err = Nil
      THEN {Result(st, g.releaseName, fs, ds, g.calls,
                   ErrorsErrorf(errChartAlreadyInstalledFmt, g.version), <<>>)}
      ELSE IF ~ErrorsIs(g.err, ErrReleaseNotFound)
      THEN {Result(st, g.releaseName, fs, ds, g.calls,
                   ErrorsWrap(g.err, errVerifyChartNotInstalled), <<>>)}
      ELSE UNION {
             IF pl.err # Nil
             THEN {Result(st, g.releaseName, pl.files, pl.dirs, g.calls \o pl.calls, pl.err, <<>>)}
             ELSE installChart(st, g.releaseName, chart, pl, g.calls)
             : pl \in pullAndLoadOutcomes(fs, ds, chart, cdir, version)}
      : g \in GetCurrentVersionOutcomes(st, rn)}

\* versionMismatch without the force flag.
versionMismatchForced(rn, current, version, f) ==
    rn = crossplaneChartName /\ ~equivalentVersions(current, version)

\* The check that keeps a crossplane release from an upgrade across versions.
\* versionMismatch letting the empty target version, the latest, through.
versionMismatchLatestPasses(rn, current, version, f) ==
    /\ version # <<>>
    /\ rn = crossplaneChartName
    /\ ~equivalentVersions(current, version)
    /\ ~f

versionMismatch(rn, current, version, f) ==
    rn = crossplaneChartName /\ ~equivalentVersions(current, version) /\ ~f

\* rollbackWanted without the rollbackOnError flag.
rollbackAlways(upErr, rb) == upErr # Nil

\* upErr != nil && h.rollbackOnError
rollbackWanted(upErr, rb) == upErr # Nil /\ rb

\* rolledBack with its two errors exchanged.
rolledBackSwapped(upErr, rErr) ==
    IF rErr # Nil
    THEN ErrorsWrap(rErr, errFailedUpgradeRollback)
    ELSE ErrorsWrap(upErr, errFailedUpgradeFailedRollback)

\* The error of an upgrade that was rolled back.
rolledBack(upErr, rErr) ==
    IF rErr # Nil
    THEN ErrorsWrap(rErr, errFailedUpgradeFailedRollback)
    ELSE ErrorsWrap(upErr, errFailedUpgradeRollback)

\* h.upgradeClient.Run(h.releaseName, chart, parameters) and what follows it.
upgradeChart(st, rn, rb, pl, calls) ==
    UNION {
      LET upCalls == Append(calls \o pl.calls, Call("upgrade", rn, u.err))
      IN IF rollbackWanted(u.err, rb)
         THEN {Result(r.store, rn, pl.files, pl.dirs,
                      Append(upCalls, Call("rollback", rn, r.err)),
                      rolledBack(u.err, r.err), <<>>) :
                   r \in RollbackRun(u.store, rn, st[rn])}
         ELSE {Result(u.store, rn, pl.files, pl.dirs, upCalls, u.err, <<>>)}
      : u \in UpgradeRun(st, rn, pl.chart)}

UpgradeOutcomes(st, rn, fs, ds, chart, cdir, f, rb, version) ==
    UNION {
      IF g.err # Nil
      THEN {Result(st, g.releaseName, fs, ds, g.calls, g.err, <<>>)}
      ELSE IF versionMismatch(g.releaseName, g.version, version, f)
      THEN {Result(st, g.releaseName, fs, ds, g.calls,
                   ErrorsNew(errUpgradeCrossplaneVersion), <<>>)}
      ELSE UNION {
             IF pl.err # Nil
             THEN {Result(st, g.releaseName, pl.files, pl.dirs, g.calls \o pl.calls, pl.err, <<>>)}
             ELSE upgradeChart(st, g.releaseName, rb, pl, g.calls)
             : pl \in pullAndLoadOutcomes(fs, ds, chart, cdir, version)}
      : g \in GetCurrentVersionOutcomes(st, rn)}

\* UninstallOutcomes on the release name of the installer, not on its chart name.
UninstallOutcomesByReleaseName(st, rn, fs, ds, chart) ==
    {Result(u.store, rn, fs, ds, <<Call("uninstall", rn, u.err)>>, u.err, <<>>) :
         u \in UninstallRun(st, rn)}

UninstallOutcomes(st, rn, fs, ds, chart) ==
    {Result(u.store, rn, fs, ds, <<Call("uninstall", chart, u.err)>>, u.err, <<>>) :
         u \in UninstallRun(st, chart)}

----------------------------------------------------------------------------
(* The state machine. *)

ReleaseValues == {NoRelease, NoMetadata} \cup {Release(v) : v \in InstalledVersions}

\* A namespace holds at most one release of the two names.
Stores ==
    {s \in [ReleaseNames -> ReleaseValues] :
         /\ ~(s[defaultChartName].present /\ s[crossplaneChartName].present)
         /\ s[otherChartName] = NoRelease}

\* The record of an operation; seq is the parity of the number of operations
\* run so far, which tells an operation from the one before it.
Operation(seq, op, version, calls, err, out) ==
    [seq |-> seq, op |-> op, version |-> version, calls |-> calls, err |-> err, out |-> out]

\* NewInstaller: the defaults, then the modifiers WithCacheDir, Force and
\* RollbackOnError.
Init ==
    /\ store \in Stores
    /\ releaseName = defaultChartName
    /\ chartName = defaultChartName
    /\ cacheDir \in CacheDirs
    /\ force \in BOOLEAN
    /\ rollbackOnError \in BOOLEAN
    /\ files = {}
    /\ dirs = {}
    /\ last = Operation(0, "NewInstaller", <<>>, <<>>, Nil, <<>>)
    /\ procs = <<>>

Apply(op, version, r) ==
    /\ store' = r.store
    /\ releaseName' = r.releaseName
    /\ files' = r.files
    /\ dirs' = r.dirs
    /\ last' = Operation(1 - last.seq, op, version, r.calls, r.err, r.out)
    /\ UNCHANGED <<chartName, cacheDir, force, rollbackOnError, procs>>

GetCurrentVersion ==
    \E g \in GetCurrentVersionOutcomes(store, releaseName) :
        Apply("GetCurrentVersion", <<>>,
              Result(store, g.releaseName, files, dirs, g.calls, g.err, g.version))

Install ==
    \E version \in TargetVersions :
        \E r \in InstallOutcomes(store, releaseName, files, dirs, chartName, cacheDir, version) :
            Apply("Install", version, r)

Upgrade ==
    \E version \in TargetVersions :
        \E r \in UpgradeOutcomes(store, releaseName, files, dirs, chartName, cacheDir,
                                 force, rollbackOnError, version) :
            Apply("Upgrade", version, r)

Uninstall ==
    \E r \in UninstallOutcomes(store, releaseName, files, dirs, chartName) :
        Apply("Uninstall", <<>>, r)

pullAndLoad ==
    \E version \in TargetVersions :
        \E pl \in pullAndLoadOutcomes(files, dirs, chartName, cacheDir, version) :
            Apply("pullAndLoad", version,
                  Result(store, releaseName, pl.files, pl.dirs, pl.calls, pl.err,
                         pl.chart.version))

Next ==
    \/ GetCurrentVersion
    \/ Install
    \/ Upgrade
    \/ Uninstall
    \/ pullAndLoad

Spec == Init /\ [][Next]_vars

\* The cluster is shared: between two operations of the installer another
\* client of the release store may install, upgrade or remove a release.
ClusterChange ==
    /\ \E s \in Stores : s # store /\ store' = s
    /\ UNCHANGED <<releaseName, chartName, cacheDir, force, rollbackOnError, files, dirs, last,
                   procs>>

NextShared == Next \/ ClusterChange

SpecShared == Init /\ [][NextShared]_vars

----------------------------------------------------------------------------
(* The installer on a namespace whose release has nothing to report: no chart
   metadata, or metadata whose Version is the empty string. *)

NoVersion == Release(<<>>)

StoresNoVersion ==
    {s \in [ReleaseNames -> {NoRelease, NoMetadata, NoVersion}] :
         /\ s[defaultChartName].present # s[crossplaneChartName].present
         /\ s[otherChartName] = NoRelease}

InitNoVersion ==
    /\ store \in StoresNoVersion
    /\ releaseName = defaultChartName
    /\ chartName = defaultChartName
    /\ cacheDir \in CacheDirs
    /\ force \in BOOLEAN
    /\ rollbackOnError \in BOOLEAN
    /\ files = {}
    /\ dirs = {}
    /\ last = Operation(0, "NewInstaller", <<>>, <<>>, Nil, <<>>)
    /\ procs = <<>>

SpecNoVersion == InitNoVersion /\ [][Next]_vars

----------------------------------------------------------------------------
(* Two Install invocations at once, each by an installer of its own, on one
   namespace and one cache directory. An invocation is three steps, the
   statements of Install between which the other invocation may run: the
   lookup, pullAndLoad, and the install primitive. *)

Procs == {1, 2}

Invocation(pc, version, rn, chart, calls, err) ==
    [pc |-> pc, version |-> version, releaseName |-> rn, chart |-> chart,
     calls |-> calls, err |-> err]

InitRace ==
    /\ store \in {s \in Stores : \A name \in ReleaseNames : s[name] = NoRelease}
    /\ releaseName = defaultChartName
    /\ chartName = defaultChartName
    /\ cacheDir \in CacheDirs
    /\ force = FALSE
    /\ rollbackOnError = FALSE
    /\ files = {}
    /\ dirs = {}
    /\ last = Operation(0, "NewInstaller", <<>>, <<>>, Nil, <<>>)
    /\ procs \in [Procs -> {Invocation("lookup", v, defaultChartName, NoChart, <<>>, Nil) :
                               v \in TargetVersions}]

\* current, err := h.GetCurrentVersion() and the two returns that follow it.
InstallLookup(p) ==
    /\ procs[p].pc = "lookup"
    /\ \E g \in GetCurrentVersionOutcomes(store, procs[p].releaseName) :
         procs' = [procs EXCEPT ![p] =
             IF g.err = Nil
             THEN Invocation("done", @.version, g.releaseName, NoChart, g.calls,
                             ErrorsErrorf(errChartAlreadyInstalledFmt, g.version))
             ELSE IF ~ErrorsIs(g.err, ErrReleaseNotFound)
             THEN Invocation("done", @.version, g.releaseName, NoChart, g.calls,
                             ErrorsWrap(g.err, errVerifyChartNotInstalled))
             ELSE Invocation("pullAndLoad", @.version, g.releaseName, NoChart, g.calls, Nil)]
    /\ UNCHANGED <<store, releaseName, chartName, cacheDir, force, rollbackOnError,
                   files, dirs, last>>

\* chart, err := h.pullAndLoad(version)
InstallPullAndLoad(p) ==
    /\ procs[p].pc = "pullAndLoad"
    /\ \E pl \in pullAndLoadOutcomes(files, dirs, chartName, cacheDir, procs[p].version) :
         /\ files' = pl.files
         /\ dirs' = pl.dirs
         /\ procs' = [procs EXCEPT ![p] =
                Invocation(IF pl.err # Nil THEN "done" ELSE "install", @.version,
                           @.releaseName, pl.chart, @.calls \o pl.calls, pl.err)]
    /\ UNCHANGED <<store, releaseName, chartName, cacheDir, force, rollbackOnError, last>>

\* _, err = h.installClient.Run(chart, parameters)
InstallChart(p) ==
    /\ procs[p].pc = "install"
    /\ \E r \in installChart(store, procs[p].releaseName, chartName,
                             Loaded(procs[p].chart, Nil, files, dirs, <<>>), procs[p].calls) :
         /\ store' = r.store
         /\ procs' = [procs EXCEPT ![p] =
                Invocation("done", @.version, @.releaseName, @.chart, r.calls, r.err)]
    /\ UNCHANGED <<releaseName, chartName, cacheDir, force, rollbackOnError, files, dirs, last>>

NextRace == \E p \in Procs : InstallLookup(p) \/ InstallPullAndLoad(p) \/ InstallChart(p)

SpecRace == InitRace /\ [][NextRace]_vars

----------------------------------------------------------------------------
(* The installer built with or without the modifier WithChartName. *)

ChartNames == {defaultChartName, otherChartName}

\* NewInstaller: WithChartName sets chartName and nothing else; releaseName is
\* defaultChartName whatever the modifiers.
InitOverride ==
    /\ store \in Stores
    /\ releaseName = defaultChartName
    /\ chartName \in ChartNames
    /\ cacheDir \in CacheDirs
    /\ force \in BOOLEAN
    /\ rollbackOnError \in BOOLEAN
    /\ files = {}
    /\ dirs = {}
    /\ last = Operation(0, "NewInstaller", <<>>, <<>>, Nil, <<>>)
    /\ procs = <<>>

SpecOverride == InitOverride /\ [][Next]_vars

----------------------------------------------------------------------------
(* The installer on a namespace that holds a crossplane release, older than
   the latest chart of the repository or at its version. *)

LegacyVersions == InstalledVersions \cup RepoVersions

StoresLegacy ==
    {s \in [ReleaseNames -> {NoRelease} \cup {Release(v) : v \in LegacyVersions}] :
         /\ s[crossplaneChartName].present
         /\ s[defaultChartName] = NoRelease
         /\ s[otherChartName] = NoRelease}

InitLegacy ==
    /\ store \in StoresLegacy
    /\ releaseName = defaultChartName
    /\ chartName = defaultChartName
    /\ cacheDir \in CacheDirs
    /\ force \in BOOLEAN
    /\ rollbackOnError \in BOOLEAN
    /\ files = {}
    /\ dirs = {}
    /\ last = Operation(0, "NewInstaller", <<>>, <<>>, Nil, <<>>)
    /\ procs = <<>>

SpecLegacy == InitLegacy /\ [][Next]_vars

----------------------------------------------------------------------------
(* equivalentVersions on its own: the function applied to two version strings
   written out from their parts, or to strings that are no versions. *)

\* strconv.Itoa for a natural number.
RECURSIVE Itoa(_)
Itoa(n) == IF n < 10 THEN <<Digits[n + 1]>> ELSE Itoa(n \div 10) \o <<Digits[(n % 10) + 1]>>

Majors == {1, 10}
Minors == {0, 2}
Patches == {0, 1}
Prereleases == {<<>>, <<"u", "p", ".", "1">>, <<"u", "p", ".", "2">>}

\* The parts of a version string: a "v" or none, the numbers, the prerelease.
VersionParts ==
    [v : BOOLEAN, major : Majors, minor : Minors, patch : Patches, pre : Prereleases]

Parts(v, major, minor, patch, pre) ==
    [v |-> v, major |-> major, minor |-> minor, patch |-> patch, pre |-> pre]

\* The string of a version: vX.Y.Z-PRE, the "v" and the prerelease optional.
FormatVersion(p) ==
    (IF p.v THEN <<"v">> ELSE <<>>)
        \o Itoa(p.major) \o <<".">> \o Itoa(p.minor) \o <<".">> \o Itoa(p.patch)
        \o (IF p.pre = <<>> THEN <<>> ELSE <<"-">> \o p.pre)

\* A version string and the parts it was written from.
Written(p) == [string |-> FormatVersion(p), parsable |-> TRUE, parts |-> p]

\* A version string without its patch number, which stands for patch 0.
WrittenShort(p) ==
    [string |-> (IF p.v THEN <<"v">> ELSE <<>>) \o Itoa(p.major) \o <<".">> \o Itoa(p.minor),
     parsable |-> TRUE,
     parts |-> Parts(p.v, p.major, p.minor, 0, <<>>)]

\* Strings that are no versions.
Unparsable ==
    {<<>>, <<"v">>, <<"x">>, <<"1", ".", "x">>, <<"1", ".", ".", "0">>,
     <<"1", ".", "0", ".", "0", ".", "0">>, <<"1", ".", "0", ".", "0", "-">>}

NotWritten(s) ==
    [string |-> s, parsable |-> FALSE, parts |-> Parts(FALSE, 0, 0, 0, <<>>)]

VersionInputs ==
    {Written(p) : p \in VersionParts}
        \cup {WrittenShort(p) : p \in {q \in VersionParts : q.patch = 0 /\ q.pre = <<>>}}
        \cup {NotWritten(s) : s \in Unparsable}

InitVersions ==
    /\ Init
    /\ \A name \in ReleaseNames : store[name] = NoRelease
    /\ ~force
    /\ ~rollbackOnError

\* One call equivalentVersions(current, target); a behaviour makes one call.
EquivalentVersions ==
    \E current \in VersionInputs, target \in VersionInputs :
        /\ last.op = "NewInstaller"
        /\ last' = Operation(1, "equivalentVersions", target.string, <<>>, Nil,
                             [current |-> current, target |-> target,
                              equivalent |-> equivalentVersions(current.string, target.string)])
        /\ UNCHANGED <<store, releaseName, chartName, cacheDir, force, rollbackOnError,
                       files, dirs, procs>>

NextVersions == EquivalentVersions

SpecVersions == InitVersions /\ [][NextVersions]_vars

----------------------------------------------------------------------------
(* What the claims speak of. *)

Mutating == {"install", "upgrade", "rollback", "uninstall"}

\* The number of calls an operation made on the collaborators in ops.
NCalls(l, ops) == Cardinality({i \in DOMAIN l.calls : l.calls[i].op \in ops})

\* Every query of the release store was answered: a release or not-found.
Answered(l) ==
    \A i \in DOMAIN l.calls :
        l.calls[i].op = "get" => l.calls[i].err \in {Nil, ErrorsNew(ErrReleaseNotFound)}

\* The name the namespace holds its release under, canonical first.
PresentName(st) ==
    IF st[defaultChartName].present THEN defaultChartName
    ELSE IF st[crossplaneChartName].present THEN crossplaneChartName
    ELSE "none"

\* Present(name, version): a release with a version to report.
Present(st) == PresentName(st) # "none" /\ st[PresentName(st)].meta

Absent(st) == PresentName(st) = "none"

----------------------------------------------------------------------------
(* The claims. *)

InstallOnAbsentInstallsCanonical ==
    [][(/\ last'.op = "Install"
        /\ Absent(store)
        /\ \E i \in DOMAIN last'.calls :
               last'.calls[i].op = "install" /\ last'.calls[i].err = Nil)
         => /\ last'.err = Nil
            /\ store'[defaultChartName].present /\ store'[defaultChartName].meta
            /\ IF TrimPrefixV(last'.version) # <<>>
               THEN store'[defaultChartName].version = TrimPrefixV(last'.version)
               ELSE store'[defaultChartName].version \in RepoVersions
            /\ store'[crossplaneChartName] = NoRelease
            /\ \A i \in DOMAIN last'.calls :
                   last'.calls[i].op \in Mutating => last'.calls[i].arg = defaultChartName
            /\ releaseName' = defaultChartName]_vars

\* An Install of "v1.0.0-u" that created the canonical release.
InstallOnAbsentWitness ==
    /\ last.op = "Install"
    /\ last.version = Vv100u
    /\ last.err = Nil
    /\ store[defaultChartName] = Release(V100u)
    /\ store[crossplaneChartName] = NoRelease
    /\ releaseName = defaultChartName

\* The lookup of an operation resolved the release under the legacy name.
ResolvedLegacy(st, l) ==
    /\ Len(l.calls) >= 2
    /\ l.calls[1] = Call("get", defaultChartName, ErrorsNew(ErrReleaseNotFound))
    /\ l.calls[2] = Call("get", crossplaneChartName, Nil)
    /\ st[crossplaneChartName].meta

\* C3: an Upgrade that resolves the release under the legacy name, the current
\* and the target version not being equivalent, fails with
\* UpgradeVersionMismatch before any pull, load or upgrade when force is
\* false; when force is true it is not rejected and goes on to pullAndLoad
\* and, the chart loaded, to the upgrade primitive.
LegacyGate ==
    [][(/\ last'.op = "Upgrade"
        /\ ResolvedLegacy(store, last')
        /\ ~equivalentVersions(store[crossplaneChartName].version, last'.version))
         => IF ~force
            THEN /\ last'.err = ErrorsNew(errUpgradeCrossplaneVersion)
                 /\ Len(last'.calls) = 2
            ELSE /\ last'.err # ErrorsNew(errUpgradeCrossplaneVersion)
                 /\ Len(last'.calls) >= 3
                 /\ last'.calls[3].op \in {"stat", "tempDir"}
                 /\ \A i \in DOMAIN last'.calls :
                        (last'.calls[i].op = "load" /\ last'.calls[i].err = Nil)
                          => \E j \in DOMAIN last'.calls :
                                 j > i /\ last'.calls[j].op = "upgrade"
                                       /\ last'.calls[j].arg = crossplaneChartName]_vars

\* An Upgrade of a crossplane release refused for its version.
LegacyGateWitness ==
    /\ last.op = "Upgrade"
    /\ ~force
    /\ last.err = ErrorsNew(errUpgradeCrossplaneVersion)
    /\ last.calls[2] = Call("get", crossplaneChartName, Nil)
    /\ ~equivalentVersions(store[crossplaneChartName].version, last.version)

\* C4: an Upgrade whose lookup finds the release under the canonical name is
\* never rejected with UpgradeVersionMismatch, whatever the operations that
\* ran before it on the installer, the versions and the force flag.
CanonicalNeverGated ==
    (/\ last.op = "Upgrade"
     /\ Len(last.calls) >= 1
     /\ last.calls[1] = Call("get", defaultChartName, Nil))
      => last.err # ErrorsNew(errUpgradeCrossplaneVersion)

\* C5: Upgrade on an Absent namespace fails with an error that is
\* ReleaseNotFound to errors.Is, and calls neither the puller, the loader nor
\* the install, upgrade or rollback primitive.
UpgradeOnAbsentNotFound ==
    [][(last'.op = "Upgrade" /\ Answered(last') /\ Absent(store))
         => /\ ErrorsIs(last'.err, ErrReleaseNotFound)
            /\ NCalls(last', {"pull", "load", "install", "upgrade", "rollback"}) = 0
            /\ store' = store]_vars

\* An Upgrade that found no release under either name.
UpgradeOnAbsentWitness ==
    /\ last.op = "Upgrade"
    /\ Len(last.calls) = 2
    /\ last.calls[2] = Call("get", crossplaneChartName, ErrorsNew(ErrReleaseNotFound))
    /\ Absent(store)
    /\ ErrorsIs(last.err, ErrReleaseNotFound)

\* The upgrade primitive failed at call i of the operation l.
UpgradeFailedAt(l, i) ==
    i \in DOMAIN l.calls /\ l.calls[i].op = "upgrade" /\ l.calls[i].err # Nil

RolledBackAt(l, i) == i \in DOMAIN l.calls /\ l.calls[i].op = "rollback"

Causes(err) == {err[i] : i \in DOMAIN err}

\* C6: when the upgrade primitive fails, rollbackOnError is set and the
\* rollback primitive fails too, Upgrade returns RollbackFailed and the error
\* carries both the upgrade error and the rollback error as causes.
RollbackFailedCarriesBoth ==
    \A i \in DOMAIN last.calls :
        (/\ last.op = "Upgrade"
         /\ rollbackOnError
         /\ UpgradeFailedAt(last, i)
         /\ RolledBackAt(last, i + 1)
         /\ last.calls[i + 1].err # Nil)
          => /\ last.err[1].msg = errFailedUpgradeFailedRollback
             /\ Causes(last.calls[i].err) \subseteq Causes(last.err)
             /\ Causes(last.calls[i + 1].err) \subseteq Causes(last.err)

\* C7: when the upgrade primitive fails, rollbackOnError is set and the
\* rollback primitive succeeds, Upgrade returns UpgradeRolledBack wrapping the
\* upgrade error; UpgradeRolledBack is returned in that case only and
\* RollbackFailed only when the rollback primitive failed.
RolledBackDistinguishable ==
    /\ \A i \in DOMAIN last.calls :
           (/\ last.op = "Upgrade"
            /\ rollbackOnError
            /\ UpgradeFailedAt(last, i)
            /\ RolledBackAt(last, i + 1)
            /\ last.calls[i + 1].err = Nil)
             => last.err = ErrorsWrap(last.calls[i].err, errFailedUpgradeRollback)
    /\ ErrorsIs(last.err, errFailedUpgradeRollback)
         => /\ last.op = "Upgrade"
            /\ \E i \in DOMAIN last.calls :
                   /\ UpgradeFailedAt(last, i)
                   /\ RolledBackAt(last, i + 1)
                   /\ last.calls[i + 1].err = Nil
    /\ ErrorsIs(last.err, errFailedUpgradeFailedRollback)
         => /\ last.op = "Upgrade"
            /\ \E i \in DOMAIN last.calls : RolledBackAt(last, i) /\ last.calls[i].err # Nil

\* An Upgrade that failed and was rolled back.
RolledBackWitness ==
    /\ last.op = "Upgrade"
    /\ rollbackOnError
    /\ last.err = ErrorsWrap(ErrorsNew(errUpgradeRun), errFailedUpgradeRollback)
    /\ \E i \in DOMAIN last.calls : RolledBackAt(last, i) /\ last.calls[i].err = Nil

\* C8: with rollbackOnError not set, an Upgrade whose upgrade primitive fails
\* returns the error of the primitive itself and does not call the rollback
\* primitive; every Upgrade calls the rollback primitive at most once, and
\* only right after a failed call of the upgrade primitive.
RollbackOnlyOnError ==
    /\ \A i \in DOMAIN last.calls :
           (last.op = "Upgrade" /\ ~rollbackOnError /\ UpgradeFailedAt(last, i))
             => last.err = last.calls[i].err /\ NCalls(last, {"rollback"}) = 0
    /\ NCalls(last, {"rollback"}) <= 1
    /\ \A i \in DOMAIN last.calls :
           RolledBackAt(last, i) => last.op = "Upgrade" /\ UpgradeFailedAt(last, i - 1)

\* An Upgrade that failed with rollbackOnError not set.
RollbackOnlyOnErrorWitness ==
    /\ last.op = "Upgrade"
    /\ ~rollbackOnError
    /\ last.err = ErrorsNew(errUpgradeRun)
    /\ \E i \in DOMAIN last.calls : UpgradeFailedAt(last, i)

\* The archive of a concrete version, under its name in the cache directory.
CachedArchive(chart, cdir, version) == Path(cdir, FileName(chart, TrimPrefixV(version)))

\* C9: two pullAndLoad calls in a row for the same concrete version, the first
\* of which pulled the archive into the cache directory under its
\* deterministic name, call the puller once in all.
CachedNeverRefetched ==
    [][(/\ last.op = "pullAndLoad"
        /\ last'.op = "pullAndLoad"
        /\ last'.seq # last.seq
        /\ last'.version = last.version
        /\ TrimPrefixV(last.version) # <<>>
        /\ \E i \in DOMAIN last.calls : last.calls[i].op = "pull" /\ last.calls[i].err = Nil
        /\ Stat(files, CachedArchive(chartName, cacheDir, last.version)))
         => NCalls(last, {"pull"}) + NCalls(last', {"pull"}) = 1]_vars

\* C10: a pullAndLoad of the empty version whose temporary directory lists no
\* file or more than one after the pull fails with CorruptCacheState, and
\* attempts neither a rename nor a load.
CorruptTempDirFails ==
    \A i \in DOMAIN last.calls :
        (/\ last.calls[i].op = "readDir"
         /\ last.calls[i].err = Nil
         /\ last.calls[i].n # 1)
          => /\ TrimPrefixV(last.version) = <<>>
             /\ last.calls[i - 1].op = "pull"
             /\ last.err = ErrorsErrorf(errCorruptTempDirFmt, cacheDir)
             /\ NCalls(last, {"rename", "load"}) = 0

\* A pullAndLoad of the empty version that left two files in its directory.
CorruptTempDirWitness ==
    /\ last.op = "pullAndLoad"
    /\ last.version = <<>>
    /\ \E i \in DOMAIN last.calls : last.calls[i].op = "readDir" /\ last.calls[i].n = 2
    /\ last.err = ErrorsErrorf(errCorruptTempDirFmt, cacheDir)

\* C11: Uninstall calls the uninstall primitive once, on the canonical name,
\* makes no query and no other call, and returns the error of the primitive
\* as it is; this also after a lookup made the release name of the installer
\* the legacy one, so that a release under the legacy name is left in place.
UninstallCanonicalOnly ==
    [][(last'.op = "Uninstall" /\ last'.seq # last.seq)
         => /\ Len(last'.calls) = 1
            /\ last'.calls[1].op = "uninstall"
            /\ last'.calls[1].arg = defaultChartName
            /\ last'.err = last'.calls[1].err
            /\ store'[crossplaneChartName] = store[crossplaneChartName]
            /\ releaseName' = releaseName]_vars

\* An Uninstall by an installer whose release name is the legacy one, the
\* legacy release being the one installed.
UninstallCanonicalOnlyWitness ==
    /\ last.op = "Uninstall"
    /\ releaseName = crossplaneChartName
    /\ store[crossplaneChartName].present
    /\ last.calls = <<Call("uninstall", defaultChartName, ErrorsNew(errUninstallRun))>>
    /\ last.err = ErrorsNew(errUninstallRun)

SameNumbers(p, q) == p.major = q.major /\ p.minor = q.minor /\ p.patch = q.patch

\* C12: equivalentVersions is true for two parsable versions that differ in
\* nothing but the prerelease (and the optional "v"), false for two that differ
\* in major, minor or patch, and false when either string is no version,
\* whatever the other is.
EquivalentVersionsContract ==
    last.op = "equivalentVersions"
        => LET current == last.out.current
               target == last.out.target
           IN /\ (current.parsable /\ target.parsable /\ SameNumbers(current.parts, target.parts))
                    => last.out.equivalent
              /\ (current.parsable /\ target.parsable /\ ~SameNumbers(current.parts, target.parts))
                    => ~last.out.equivalent
              /\ (~current.parsable \/ ~target.parsable) => ~last.out.equivalent

\* Crossplane v10.2.1 against UXP 10.2.1-up.2: two-digit major, the prerelease
\* and the "v" differ, and the two are equivalent.
EquivalentVersionsWitness ==
    /\ last.op = "equivalentVersions"
    /\ last.out.current = Written(Parts(TRUE, 10, 2, 1, <<>>))
    /\ last.out.target = Written(Parts(FALSE, 10, 2, 1, <<"u", "p", ".", "2">>))
    /\ last.out.equivalent

\* C13: from a namespace with at most one release among the canonical and the
\* legacy name, no sequence of Install, Upgrade and Uninstall of one installer
\* (and of its lookups) reaches a state where both names hold a release.
AtMostOneRelease ==
    ~(store[defaultChartName].present /\ store[crossplaneChartName].present)

\* A legacy release upgraded in place: the legacy name holds the new version
\* and the canonical name holds nothing.
AtMostOneReleaseWitness ==
    /\ last.op = "Upgrade"
    /\ last.err = Nil
    /\ releaseName = crossplaneChartName
    /\ store[crossplaneChartName].present
    /\ store[crossplaneChartName].version # V100
    /\ ~store[defaultChartName].present

\* The calls of a pullAndLoad: everything but the primitives of the release store.
PullAndLoadCalls == {"tempDir", "stat", "pull", "readDir", "rename", "load", "removeAll"}

\* C14: a pullAndLoad of the empty version that created its temporary
\* directory calls RemoveAll on it once, as its last step, whichever way it
\* ends: pull failure, listing failure, corrupt directory, rename failure, load
\* failure or success. When the removal succeeds the directories are those
\* from before the operation and no file lies outside the cache directory.
TempDirRemovedOnExit ==
    [][\A i \in DOMAIN last'.calls :
         (last'.seq # last.seq /\ last'.calls[i].op = "tempDir" /\ last'.calls[i].err = Nil)
           => \E j \in DOMAIN last'.calls :
                /\ j > i
                /\ last'.calls[j].op = "removeAll"
                /\ \A k \in DOMAIN last'.calls :
                     /\ (k # j) => last'.calls[k].op # "removeAll"
                     /\ (k < j) => last'.calls[k].op \notin Mutating
                     /\ (k > j) => last'.calls[k].op \notin PullAndLoadCalls
                /\ last'.calls[j].err = Nil
                     => /\ dirs' = dirs
                        /\ \A f \in files' : f.dir = cacheDir]_vars

\* The rename of the pulled file failed and the temporary directory is gone.
TempDirRemovedOnExitWitness ==
    /\ last.op = "pullAndLoad"
    /\ Len(last.calls) = 5
    /\ last.calls[1] = Call("tempDir", "", Nil)
    /\ last.calls[4] = Call("rename", "", ErrorsNew(errRename))
    /\ last.calls[5] = Call("removeAll", "", Nil)
    /\ last.err = ErrorsWrap(ErrorsNew(errRename), errMoveLatest)
    /\ dirs = {}
    /\ \A f \in files : f.dir = cacheDir

\* C15: in a pullAndLoad of the empty version whose temporary directory holds
\* one file after the pull, that file is moved into the cache directory under
\* the name the puller gave it, which carries the version the pull resolved;
\* when the rename fails the error is errMoveLatest around the error of the
\* rename and no load is attempted.
RenamedUnderPulledName ==
    [][\A i \in DOMAIN last'.calls :
         (last'.seq # last.seq /\ last'.calls[i].op = "rename")
           => IF last'.calls[i].err = Nil
              THEN \E f \in files' :
                     /\ f.dir = cacheDir
                     /\ f.name.ver \in RepoVersions
                     /\ f.name.ver = f.content
              ELSE /\ last'.err = ErrorsWrap(last'.calls[i].err, errMoveLatest)
                   /\ NCalls(last', {"load"}) = 0]_vars

Gets(l) == {i \in DOMAIN l.calls : l.calls[i].op = "get"}

\* C16: a lookup queries the canonical name first and the legacy name second,
\* the second only when the first reported not-found (and then always); a
\* release found under the canonical name is the one GetCurrentVersion
\* reports; the release name of the installer becomes the legacy name exactly
\* when the canonical query reported not-found and the legacy query found a
\* release, and is otherwise left as it was.
LookupOrder ==
    [][(last'.seq # last.seq /\ Gets(last') # {})
         => LET calls == last'.calls
                notFound == calls[1].err = ErrorsNew(ErrReleaseNotFound)
            IN /\ calls[1].op = "get" /\ calls[1].arg = defaultChartName
               /\ Gets(last') = IF notFound THEN {1, 2} ELSE {1}
               /\ notFound => calls[2].arg = crossplaneChartName
               /\ (calls[1].err = Nil /\ store[defaultChartName].meta /\ last'.op = "GetCurrentVersion")
                    => last'.err = Nil /\ last'.out = store[defaultChartName].version
               /\ releaseName' = IF notFound /\ calls[2].err = Nil
                                 THEN crossplaneChartName
                                 ELSE releaseName]_vars

\* A lookup that did not find the canonical release, found the legacy one and
\* reported its version.
LookupOrderWitness ==
    /\ last.op = "GetCurrentVersion"
    /\ last.calls = <<Call("get", defaultChartName, ErrorsNew(ErrReleaseNotFound)),
                      Call("get", crossplaneChartName, Nil)>>
    /\ last.err = Nil
    /\ last.out = V100
    /\ releaseName = crossplaneChartName

\* The release of the namespace has no chart metadata or no version.
NothingToReport(st) ==
    /\ PresentName(st) # "none"
    /\ ~st[PresentName(st)].meta \/ st[PresentName(st)].version = <<>>

\* C17: a lookup that finds a release without chart metadata or without a
\* version reports errVerifyInstalledVersion and no version; Install on such a
\* namespace fails with that error, not with AlreadyInstalled, and Upgrade
\* fails with it before any pull, load or upgrade.
NothingToReportFailsVerification ==
    [][(/\ last'.seq # last.seq
        /\ last'.op \in {"GetCurrentVersion", "Install", "Upgrade"}
        /\ Answered(last')
        /\ NothingToReport(store))
         => /\ ErrorsIs(last'.err, errVerifyInstalledVersion)
            /\ NCalls(last', Mutating \cup {"pull", "load"}) = 0
            /\ store' = store]_vars

\* The name under which the lookup of an operation found the release.
ResolvedName(l) == IF l.calls[1].err = Nil THEN defaultChartName ELSE crossplaneChartName

\* C18: in every Upgrade the upgrade primitive and, when it is called, the
\* rollback primitive are called with the name under which the lookup at the
\* start of that Upgrade found the release, whatever the installer did
\* before; the two calls of one Upgrade use the same name.
UpgradeUsesResolvedName ==
    \A i \in DOMAIN last.calls :
        (last.op = "Upgrade" /\ last.calls[i].op \in {"upgrade", "rollback"})
          => /\ last.calls[i].arg = ResolvedName(last)
             /\ \A j \in DOMAIN last.calls :
                    last.calls[j].op \in {"upgrade", "rollback"}
                      => last.calls[j].arg = last.calls[i].arg

\* The lookup of an invocation found no release under either name.
ObservedAbsent(i) ==
    /\ Len(i.calls) >= 2
    /\ i.calls[1] = Call("get", defaultChartName, ErrorsNew(ErrReleaseNotFound))
    /\ i.calls[2] = Call("get", crossplaneChartName, ErrorsNew(ErrReleaseNotFound))

CalledInstall(i) == \E k \in DOMAIN i.calls : i.calls[k].op = "install"

\* C19: nothing is locked and nothing is looked up again between the lookup of
\* an Install and its install: an invocation whose lookup observed Absent and
\* whose chart was loaded always calls the install primitive, whatever another
\* invocation did to the namespace meanwhile, and it queries the store twice in
\* all. So two Install invocations at once can both observe Absent and both
\* call the install primitive.
InstallNotRechecked ==
    \A p \in DOMAIN procs :
        /\ (procs[p].pc = "done" /\ ObservedAbsent(procs[p])
              /\ \E k \in DOMAIN procs[p].calls :
                     procs[p].calls[k].op = "load" /\ procs[p].calls[k].err = Nil)
             => CalledInstall(procs[p])
        /\ Cardinality(Gets(procs[p])) <= 2

\* Both invocations observed Absent and both called the install primitive; the
\* first call created the release and the second one failed.
InstallRaceWitness ==
    /\ DOMAIN procs = Procs
    /\ \A p \in Procs :
         procs[p].pc = "done" /\ ObservedAbsent(procs[p]) /\ CalledInstall(procs[p])
    /\ procs[1].err = Nil
    /\ procs[2].err = ErrorsNew(errInstallRun)
    /\ store[defaultChartName].present

\* C20: whatever chart name the installer was built with, a successful Install
\* leaves the release under a name the lookup queries, so that an Install
\* right after a successful Install (the store answering the lookup) fails
\* with AlreadyInstalled and does not call the install primitive.
SecondInstallRefused ==
    [][/\ (last'.seq # last.seq /\ last'.op = "Install" /\ last'.err = Nil)
          => Present(store')
       /\ (/\ last.op = "Install" /\ last.err = Nil
           /\ last'.seq # last.seq /\ last'.op = "Install" /\ Answered(last'))
          => /\ Len(last'.err) = 1
             /\ last'.err[1].msg = errChartAlreadyInstalledFmt
             /\ NCalls(last', {"install"}) = 0]_vars

\* C21: an Upgrade to the empty version, the latest, that resolves the release
\* under the legacy name fails with UpgradeVersionMismatch when force is
\* false, whatever version is installed and whatever the repository holds:
\* the empty string is no version and is equivalent to none. Nothing is
\* pulled, loaded or upgraded and the files and the releases are unchanged.
LatestOnLegacyMismatch ==
    [][(/\ last'.seq # last.seq
        /\ last'.op = "Upgrade"
        /\ last'.version = <<>>
        /\ ResolvedLegacy(store, last')
        /\ ~force)
         => /\ last'.err = ErrorsNew(errUpgradeCrossplaneVersion)
            /\ Len(last'.calls) = 2
            /\ store' = store
            /\ files' = files
            /\ dirs' = dirs]_vars

\* The crossplane release is at the very version the repository holds as its
\* latest, and the Upgrade to the latest was still refused.
LatestOnLegacyMismatchWitness ==
    /\ last.op = "Upgrade"
    /\ last.version = <<>>
    /\ ~force
    /\ store[crossplaneChartName].present
    /\ store[crossplaneChartName].version \in RepoVersions
    /\ Len(last.calls) = 2
    /\ last.calls[2] = Call("get", crossplaneChartName, Nil)
    /\ last.err = ErrorsNew(errUpgradeCrossplaneVersion)

\* A step of pullAndLoad failed: the temporary directory, the pull, the
\* listing, the check of the listing, the rename or the load. (A failed
\* removal of the temporary directory is logged and fails nothing.)
ResolveFailed(l) ==
    \E i \in DOMAIN l.calls :
        \/ l.calls[i].op \in {"tempDir", "pull", "readDir", "rename", "load"}
             /\ l.calls[i].err # Nil
        \/ l.calls[i].op = "readDir" /\ l.calls[i].err = Nil /\ l.calls[i].n # 1

\* C22: when resolving the target chart fails at any step, Install does not
\* call the install primitive and Upgrade calls neither the upgrade nor the
\* rollback primitive; the operation fails and the releases of the store are
\* those from before it.
ResolveFailureLeavesStore ==
    [][(last'.seq # last.seq /\ last'.op \in {"Install", "Upgrade"} /\ ResolveFailed(last'))
         => /\ NCalls(last', Mutating) = 0
            /\ last'.err # Nil
            /\ store' = store]_vars

\* An Upgrade of the installed release whose chart could not be loaded.
ResolveFailureLeavesStoreWitness ==
    /\ last.op = "Upgrade"
    /\ last.calls[1] = Call("get", defaultChartName, Nil)
    /\ last.calls[Len(last.calls)].op = "load"
    /\ last.err = ErrorsNew(errLoad)
    /\ store[defaultChartName] = Release(V100)

====
